---- MODULE Spec2Model ----
(***************************************************************************)
(* Model of the conversational RAG chain of the product recommender:       *)
(* RAGChainBuilder (flipkart/rag_chain.py) and the /get route of the Flask *)
(* application (app.py).  Each worker thread of the web server handles one *)
(* chat request at a time; the threads share RAGChainBuilder.history_store *)
(* and the ChatMessageHistory objects it holds.                            *)
(***************************************************************************)
EXTENDS Integers, Sequences, FiniteSets, TLC

\* ------------------------------------------------------------------ bounds
\* Requests started in all: under concurrent service, and under one-at-a-time service.
MaxRequests == 2
MaxSeqRequests == 3

\* The worker threads of the web server.
Threads == {"w1", "w2"}
Sessions == {"user-session", "session-2"}
Msgs == {"m1", "m2"}
Answers == {"a1", "a2"}
Queries == {"q1"}
NoObj == 0

\* Sizes the vector index may have when a retrieval reaches it.
IndexSizes == {0, 4, 5, 6}

\* The settings _validate_config requires, and the values a setting can have:
\* os.getenv gives None for a variable that is not set.
RequiredVars == {"ASTRA_DB_API_ENDPOINT", "ASTRA_DB_APPLICATION_TOKEN", "ASTRA_DB_KEYSPACE"}
NoneValue == "<None>"
ConfigValues == {NoneValue, "", "value"}

\* The forms a POST /get may carry: with a msg field, or without one.
Forms == {[msg |-> m] : m \in Msgs} \cup {[text |-> "m1"]}
NoForm == <<>>
NoResponse == [status |-> 0, body |-> ""]

\* The applications that may exist in one process, and the GET / requests each may get.
Apps == {"app1", "app2"}
MaxHits == 3
MaxHttpRequests == 7
NotScraped == [reported |-> 0 - 1, requests |-> 0 - 1]

\* The rows a CSV file may have, and the texts of its cells. A text is a
\* sequence of characters; space and tab are the whitespace str.strip removes.
MaxRows == 2
MinReviewLength == 10
Whitespace == {" ", "\t"}
Rep(c, n) == [i \in 1..n |-> c]
Reviews ==
    { <<>>,                                   \* the cell is empty
      Rep(" ", 2),                            \* blank
      Rep("r", 10),                           \* ten characters
      Rep("r", 11),                           \* eleven characters
      Rep("s", 12),
      <<" ">> \o Rep("r", 11) \o <<"\t">>,    \* eleven characters inside whitespace
      Rep(" ", 2) \o Rep("r", 9) }            \* eleven characters, nine without the spaces
Titles == { <<>>, Rep("p", 3), <<" ">> \o Rep("q", 3) \o <<" ">> }
Rows == [product_title : Titles, review : Reviews, rating : {<<"5">>}]
CsvFiles == UNION {[1..n -> Rows] : n \in 0..MaxRows}

\* The numbers of documents the CSV file may convert to.
DocCounts == {0, 1, 50, 51, 101}

\* What vstore.add_documents or the converter may raise.
StoreErrors == {"ConnectionError", "ValueError"}
BatchSize == 50

VARIABLES
    history_store,    \* RAGChainBuilder.history_store: session key -> object (NoObj: key absent)
    heap,             \* the ChatMessageHistory objects created so far: heap[i] is object i's messages
    pc,               \* the stage each thread's request is at
    session_id,       \* config["configurable"]["session_id"] of the thread's request
    user_input,       \* the request's "input"
    message_history,  \* the history object _get_history returned to the request
    chat_history,     \* the request's copy of the history messages ("chat_history" key)
    query,            \* the query handed to the retriever
    answer,           \* the request's "answer"
    error,            \* the exception the caller of the request receives ("" for none)
    thrown,           \* the exception that was raised in the request ("" for none)
    ncalls,           \* external calls the request has issued, per collaborator
    log,              \* successful generations so far, in the order generation completed
    nreq,             \* requests started so far
    retrieved,        \* the request's retrieval: the k asked for, the index size, the documents returned
    retriever,        \* the arguments the chain's retriever was created with
    as_retriever_calls, \* the calls build_chain has made to vector_store.as_retriever
    program,          \* the entry point that is running: "app" (create_app) or "main" (main.py)
    startup,          \* how far the entry point has come
    config,           \* Config's three Astra settings, as read from the environment
    csv,              \* Data/flipkart_product_review.csv: whether it exists, and the documents it converts to
    ingestor,         \* the DataIngestor: its attributes and the position of its running method
    add_documents_calls, \* the batches passed to vstore.add_documents, as <<first index, length>>
    store_docs,       \* the documents the vector store collection has received
    form,             \* per thread: the form of the POST /get it is handling
    response,         \* per thread: the HTTP response it sent last
    nposts,           \* POST /get requests received that carried a msg field
    apps,             \* the Flask applications create_app has returned in this process
    REQUEST_COUNT,    \* the module's Counter http_requests_total
    index_hits,       \* per application: the GET / requests made to it
    last_metrics,     \* per application: what GET /metrics reported last, and for how many GET /
    http_requests,    \* the HTTP requests the process has handled on the routes / and /metrics
    csv_rows,         \* DataConverter: the rows of the CSV file at file_path
    df,               \* DataConverter.convert: its data frame
    documents,        \* DataConverter.convert: the list it returns
    conv_pc           \* DataConverter.convert: its position

chainVars == <<history_store, heap, pc, session_id, user_input, message_history,
               chat_history, query, answer, error, thrown, ncalls, log, nreq, retrieved>>
buildVars == <<retriever, as_retriever_calls>>
bootVars == <<program, startup, config, csv, ingestor, add_documents_calls, store_docs>>

httpVars == <<form, response, nposts>>
metricVars == <<apps, REQUEST_COUNT, index_hits, last_metrics, http_requests>>
convVars == <<csv_rows, df, documents, conv_pc>>

vars == <<chainVars, buildVars, bootVars, httpVars, metricVars, convVars>>

\* ----------------------------------------------------------------- helpers
HumanMessage(content) == [type |-> "human", content |-> content]
AIMessage(content) == [type |-> "ai", content |-> content]

NoCalls == [reformulate |-> 0, retrieve |-> 0, generate |-> 0]
NoRetrieval == [k |-> 0, indexed |-> 0, docs |-> 0]
NoRetriever == [search_kwargs |-> [k |-> 0]]

\* The retriever as the tests of build_chain expect it.
AsRetrieverArgsTest == [search_kwargs |-> [k |-> 3]]

\* The retriever with the vector store's default arguments.
AsRetrieverArgsDefault == [search_type |-> "similarity", search_kwargs |-> [k |-> 4]]

\* build_chain, lines 92-95: the arguments of vector_store.as_retriever.
AsRetrieverArgs == [search_type |-> "similarity", search_kwargs |-> [k |-> 5]]

\* A similarity search for the top k of n indexed documents returns the k best,
\* or all n when there are fewer.
TopK(n, k) == IF n < k THEN n ELSE k

\* A faulty add_message, which puts the message first.
add_message_front(messages, m) == <<m>> \o messages

\* ChatMessageHistory.add_message: the message goes to the end of the list.
add_message(messages, m) == Append(messages, m)

\* A faulty constructor, whose objects all share one message list.
NewHistoryShared(h) == 1

\* ChatMessageHistory(): a fresh object with its own empty message list.
NewHistory(h) == Len(h) + 1

\* The messages of the history the store holds for a session key.
SessionMessages(s) ==
    IF history_store[s] = NoObj THEN <<>> ELSE heap[history_store[s]]

\* The turns of the log that belong to one session, as the messages they add.
RECURSIVE TurnMessages(_, _)
TurnMessages(l, s) ==
    IF l = <<>> THEN <<>>
    ELSE IF Head(l).session = s
         THEN <<HumanMessage(Head(l).input), AIMessage(Head(l).answer)>>
              \o TurnMessages(Tail(l), s)
         ELSE TurnMessages(Tail(l), s)

IsPrefix(a, b) == Len(a) <= Len(b) /\ SubSeq(b, 1, Len(a)) = a

AllIdle == \A t \in Threads : pc[t] = "idle"

\* -------------------------------------------------------------------- Init
InitChain ==
    /\ history_store = [s \in Sessions |-> NoObj]
    /\ heap = <<>>
    /\ pc = [t \in Threads |-> "idle"]
    /\ session_id = [t \in Threads |-> ""]
    /\ user_input = [t \in Threads |-> ""]
    /\ message_history = [t \in Threads |-> NoObj]
    /\ chat_history = [t \in Threads |-> <<>>]
    /\ query = [t \in Threads |-> ""]
    /\ answer = [t \in Threads |-> ""]
    /\ error = [t \in Threads |-> ""]
    /\ thrown = [t \in Threads |-> ""]
    /\ ncalls = [t \in Threads |-> NoCalls]
    /\ log = <<>>
    /\ nreq = 0
    /\ retrieved = [t \in Threads |-> NoRetrieval]

\* No DataIngestor has been constructed.
NoIngestor ==
    [pc |-> "absent", error |-> "", raised |-> "", embedding |-> FALSE, vstore |-> FALSE,
     load_existing |-> FALSE, csv_checked |-> FALSE, csv_read |-> FALSE,
     docs |-> 0, i |-> 0, result |-> ""]

\* The DataIngestor of a started application: constructed, and ingest(load_existing=True)
\* has returned its vector store.
StartedIngestor ==
    [NoIngestor EXCEPT !.pc = "returned", !.embedding = TRUE, !.vstore = TRUE,
                       !.load_existing = TRUE, !.result = "vstore"]

\* The application has been created and serves requests (create_app has returned).
Init ==
    /\ InitChain
    /\ retriever = AsRetrieverArgs
    /\ as_retriever_calls = <<AsRetrieverArgs>>
    /\ program = "app"
    /\ startup = "serving"
    /\ config = [v \in RequiredVars |-> "value"]
    /\ csv = [exists |-> TRUE, docs |-> 1]
    /\ ingestor = StartedIngestor
    /\ add_documents_calls = <<>>
    /\ store_docs = 0
    /\ apps = {"app1"}
    /\ form = [t \in Threads |-> NoForm]
    /\ response = [t \in Threads |-> NoResponse]
    /\ nposts = 0
    /\ REQUEST_COUNT = 0
    /\ index_hits = [a \in Apps |-> 0]
    /\ last_metrics = [a \in Apps |-> NotScraped]
    /\ http_requests = 0
    /\ csv_rows = <<>>
    /\ df = <<>>
    /\ documents = <<>>
    /\ conv_pc = "idle"

\* An entry point is about to run: create_app() of app.py, or main() of main.py.
InitBoot ==
    /\ InitChain
    /\ retriever = NoRetriever
    /\ as_retriever_calls = <<>>
    /\ program \in {"app", "main"}
    /\ startup = "begin"
    /\ config \in [RequiredVars -> ConfigValues]
    /\ csv \in [exists : BOOLEAN, docs : DocCounts]
    /\ ingestor = NoIngestor
    /\ add_documents_calls = <<>>
    /\ store_docs = 0
    /\ apps = {}
    /\ form = [t \in Threads |-> NoForm]
    /\ response = [t \in Threads |-> NoResponse]
    /\ nposts = 0
    /\ REQUEST_COUNT = 0
    /\ index_hits = [a \in Apps |-> 0]
    /\ last_metrics = [a \in Apps |-> NotScraped]
    /\ http_requests = 0
    /\ csv_rows = <<>>
    /\ df = <<>>
    /\ documents = <<>>
    /\ conv_pc = "idle"

\* ------------------------------------------------------------------ actions
\* RunnableWithMessageHistory.invoke is entered with an input and a session id.
invoke(t, sid, m) ==
    /\ pc[t] = "idle"
    /\ nreq' = nreq + 1
    /\ pc' = [pc EXCEPT ![t] = "get_history"]
    /\ session_id' = [session_id EXCEPT ![t] = sid]
    /\ user_input' = [user_input EXCEPT ![t] = m]
    /\ UNCHANGED <<history_store, heap, message_history, chat_history, query,
                   answer, error, thrown, ncalls, log, retrieved>>

\* app.get_response: the chain is invoked with the form's msg and the fixed key.
get_response(t, m) == invoke(t, "user-session", m)

\* _get_history, line 73: the membership test.
GetHistoryCheck(t) ==
    /\ pc[t] = "get_history"
    /\ pc' = [pc EXCEPT ![t] =
                 IF history_store[session_id[t]] = NoObj THEN "create" ELSE "lookup"]
    /\ UNCHANGED <<history_store, heap, session_id, user_input, message_history,
                   chat_history, query, answer, error, thrown, ncalls, log, nreq, retrieved>>

\* _get_history, line 74: a new ChatMessageHistory is stored under the key.
GetHistoryCreate(t) ==
    /\ pc[t] = "create"
    /\ heap' = Append(heap, <<>>)
    /\ history_store' = [history_store EXCEPT ![session_id[t]] = NewHistory(heap)]
    /\ pc' = [pc EXCEPT ![t] = "lookup"]
    /\ UNCHANGED <<session_id, user_input, message_history, chat_history, query,
                   answer, error, thrown, ncalls, log, nreq, retrieved>>

\* _get_history, line 75: the object the store holds now is returned.
GetHistoryReturn(t) ==
    /\ pc[t] = "lookup"
    /\ message_history' = [message_history EXCEPT ![t] = history_store[session_id[t]]]
    /\ pc' = [pc EXCEPT ![t] = "enter"]
    /\ UNCHANGED <<history_store, heap, session_id, user_input, chat_history, query,
                   answer, error, thrown, ncalls, log, nreq, retrieved>>

\* A faulty load, which hands the chain no history.
LoadNothing(messages) == <<>>

\* RunnableWithMessageHistory loads the history messages into "chat_history".
LoadHistory(messages) == messages

\* A faulty chain, which goes from the loaded history straight to retrieval.
EnterHistorySkipsReformulation(t) ==
    /\ pc[t] = "enter"
    /\ chat_history' = [chat_history EXCEPT ![t] = LoadHistory(heap[message_history[t]])]
    /\ pc' = [pc EXCEPT ![t] = "retrieve"]
    /\ UNCHANGED <<history_store, heap, session_id, user_input, message_history, query,
                   answer, error, thrown, ncalls, log, nreq, retrieved>>

\* RunnableWithMessageHistory, before the chain runs: the messages of the
\* history object become the chain's chat_history.
EnterHistory(t) ==
    /\ pc[t] = "enter"
    /\ chat_history' = [chat_history EXCEPT ![t] = LoadHistory(heap[message_history[t]])]
    /\ pc' = [pc EXCEPT ![t] = "reformulate"]
    /\ UNCHANGED <<history_store, heap, session_id, user_input, message_history, query,
                   answer, error, thrown, ncalls, log, nreq, retrieved>>

\* A faulty propagation, which wraps the exception in utils.CustomException.
WrapError(e) == "CustomException"

\* The caller of the chain receives the collaborator's exception as raised:
\* neither build_chain nor get_response catches, wraps or retries.
Propagate(e) == e

\* A faulty failure path, on which the turn is recorded all the same.
RaiseAndRecord(t, e) ==
    /\ thrown' = [thrown EXCEPT ![t] = e]
    /\ error' = [error EXCEPT ![t] = Propagate(e)]
    /\ pc' = [pc EXCEPT ![t] = "exit_human"]

\* A collaborator raises: the request ends there, the history is not touched.
Raise(t, e) ==
    /\ thrown' = [thrown EXCEPT ![t] = e]
    /\ error' = [error EXCEPT ![t] = Propagate(e)]
    /\ pc' = [pc EXCEPT ![t] = "failed"]

Called(t, stage) == ncalls' = [ncalls EXCEPT ![t][stage] = @ + 1]

\* A faulty retriever, which asks the model for a query even without history.
ReformulateAlways(t) ==
    /\ pc[t] = "reformulate"
    /\ chat_history[t] = <<>>
    /\ Called(t, "reformulate")
    /\ query' = [query EXCEPT ![t] = "q1"]
    /\ pc' = [pc EXCEPT ![t] = "retrieve"]
    /\ UNCHANGED <<history_store, heap, session_id, user_input, message_history,
                   chat_history, answer, error, thrown, log, nreq, retrieved>>

\* history_aware_retriever with an empty chat_history: the input is the query,
\* the model is not called.
ReformulateSkip(t) ==
    /\ pc[t] = "reformulate"
    /\ chat_history[t] = <<>>
    /\ query' = [query EXCEPT ![t] = user_input[t]]
    /\ pc' = [pc EXCEPT ![t] = "retrieve"]
    /\ UNCHANGED <<history_store, heap, session_id, user_input, message_history,
                   chat_history, answer, error, thrown, ncalls, log, nreq, retrieved>>

\* history_aware_retriever with history: context_prompt | model gives the query.
ReformulateOk(t, q) ==
    /\ pc[t] = "reformulate"
    /\ chat_history[t] # <<>>
    /\ Called(t, "reformulate")
    /\ query' = [query EXCEPT ![t] = q]
    /\ pc' = [pc EXCEPT ![t] = "retrieve"]
    /\ UNCHANGED <<history_store, heap, session_id, user_input, message_history,
                   chat_history, answer, error, thrown, log, nreq, retrieved>>

ReformulateFail(t) ==
    /\ pc[t] = "reformulate"
    /\ chat_history[t] # <<>>
    /\ Called(t, "reformulate")
    /\ Raise(t, "reformulate_error")
    /\ UNCHANGED <<history_store, heap, session_id, user_input, message_history,
                   chat_history, query, answer, log, nreq, retrieved>>

\* The retriever is called with the query: a similarity search for the k it was
\* created with, over whatever the index holds at that moment.
RetrieveOk(t, n) ==
    /\ pc[t] = "retrieve"
    /\ Called(t, "retrieve")
    /\ retrieved' = [retrieved EXCEPT ![t] =
                        [k |-> retriever.search_kwargs.k, indexed |-> n,
                         docs |-> TopK(n, retriever.search_kwargs.k)]]
    /\ pc' = [pc EXCEPT ![t] = "generate"]
    /\ UNCHANGED <<history_store, heap, session_id, user_input, message_history,
                   chat_history, query, answer, error, thrown, log, nreq>>

RetrieveFail(t) ==
    /\ pc[t] = "retrieve"
    /\ Called(t, "retrieve")
    /\ Raise(t, "retrieve_error")
    /\ UNCHANGED <<history_store, heap, session_id, user_input, message_history,
                   chat_history, query, answer, log, nreq, retrieved>>

\* A faulty chain, which gives the generation prompt the reformulated query.
GenerateFromQuery(t, a) ==
    /\ pc[t] = "generate"
    /\ Called(t, "generate")
    /\ retrieved' = [retrieved EXCEPT ![t] = NoRetrieval]
    /\ answer' = [answer EXCEPT ![t] = a]
    /\ log' = Append(log, [session |-> session_id[t], input |-> query[t], answer |-> a])
    /\ pc' = [pc EXCEPT ![t] = "exit_human"]
    /\ UNCHANGED <<history_store, heap, session_id, user_input, message_history,
                   chat_history, query, error, thrown, nreq>>

\* question_answer_chain: qa_prompt | model gives the answer to the request's
\* input (the prompt's {input}); the retrieved documents are used up as the
\* prompt's context.
GenerateOk(t, a) ==
    /\ pc[t] = "generate"
    /\ Called(t, "generate")
    /\ retrieved' = [retrieved EXCEPT ![t] = NoRetrieval]
    /\ answer' = [answer EXCEPT ![t] = a]
    /\ log' = Append(log, [session |-> session_id[t], input |-> user_input[t], answer |-> a])
    /\ pc' = [pc EXCEPT ![t] = "exit_human"]
    /\ UNCHANGED <<history_store, heap, session_id, user_input, message_history,
                   chat_history, query, error, thrown, nreq>>

GenerateFail(t) ==
    /\ pc[t] = "generate"
    /\ Called(t, "generate")
    /\ retrieved' = [retrieved EXCEPT ![t] = NoRetrieval]
    /\ Raise(t, "generate_error")
    /\ UNCHANGED <<history_store, heap, session_id, user_input, message_history,
                   chat_history, query, answer, log, nreq>>

\* The chain returns a result that has no "answer" field.
GenerateNoAnswer(t) ==
    /\ pc[t] = "generate"
    /\ Called(t, "generate")
    /\ retrieved' = [retrieved EXCEPT ![t] = NoRetrieval]
    /\ pc' = [pc EXCEPT ![t] = "no_answer"]
    /\ UNCHANGED <<history_store, heap, session_id, user_input, message_history,
                   chat_history, query, answer, error, thrown, log, nreq>>

\* A faulty reading of the result, which takes an empty reply for a missing answer.
SubstituteEmptyAnswer(t) ==
    /\ pc[t] = "no_answer"
    /\ answer' = [answer EXCEPT ![t] = ""]
    /\ pc' = [pc EXCEPT ![t] = "done"]
    /\ UNCHANGED <<history_store, heap, session_id, user_input, message_history,
                   chat_history, query, error, thrown, ncalls, log, nreq, retrieved>>

\* Nothing can be recorded for a result without the output_messages_key, and
\* get_response's ["answer"] (app.py line 64) raises KeyError.
MissingAnswer(t) ==
    /\ pc[t] = "no_answer"
    /\ Raise(t, "KeyError")
    /\ UNCHANGED <<history_store, heap, session_id, user_input, message_history,
                   chat_history, query, answer, ncalls, log, nreq, retrieved>>

\* RunnableWithMessageHistory, after the chain has returned: the input message
\* (input_messages_key) and then the answer (output_messages_key) are added to
\* the history object the request holds, one add_message each.
AppendHuman(t) ==
    /\ pc[t] = "exit_human"
    /\ heap' = [heap EXCEPT ![message_history[t]] =
                   add_message(@, HumanMessage(user_input[t]))]
    /\ pc' = [pc EXCEPT ![t] = "exit_ai"]
    /\ UNCHANGED <<history_store, session_id, user_input, message_history,
                   chat_history, query, answer, error, thrown, ncalls, log, nreq, retrieved>>

AppendAI(t) ==
    /\ pc[t] = "exit_ai"
    /\ heap' = [heap EXCEPT ![message_history[t]] =
                   add_message(@, AIMessage(answer[t]))]
    /\ pc' = [pc EXCEPT ![t] = "done"]
    /\ UNCHANGED <<history_store, session_id, user_input, message_history,
                   chat_history, query, answer, error, thrown, ncalls, log, nreq, retrieved>>

\* The request is over (the answer or the exception has reached the caller):
\* the thread's locals are gone and it can take the next request.
Return(t) ==
    /\ pc[t] \in {"done", "failed"}
    /\ pc' = [pc EXCEPT ![t] = "idle"]
    /\ session_id' = [session_id EXCEPT ![t] = ""]
    /\ user_input' = [user_input EXCEPT ![t] = ""]
    /\ message_history' = [message_history EXCEPT ![t] = NoObj]
    /\ chat_history' = [chat_history EXCEPT ![t] = <<>>]
    /\ query' = [query EXCEPT ![t] = ""]
    /\ answer' = [answer EXCEPT ![t] = ""]
    /\ error' = [error EXCEPT ![t] = ""]
    /\ thrown' = [thrown EXCEPT ![t] = ""]
    /\ ncalls' = [ncalls EXCEPT ![t] = NoCalls]
    /\ UNCHANGED <<history_store, heap, log, nreq, retrieved>>

\* One step of a request that is under way.
ChainStep(t) ==
    \/ GetHistoryCheck(t)
    \/ GetHistoryCreate(t)
    \/ GetHistoryReturn(t)
    \/ EnterHistory(t)
    \/ ReformulateSkip(t)
    \/ \E q \in Queries : ReformulateOk(t, q)
    \/ ReformulateFail(t)
    \/ \E n \in IndexSizes : RetrieveOk(t, n)
    \/ RetrieveFail(t)
    \/ \E a \in Answers : GenerateOk(t, a)
    \/ GenerateFail(t)
    \/ GenerateNoAnswer(t)
    \/ MissingAnswer(t)
    \/ AppendHuman(t)
    \/ AppendAI(t)

Step(t) == ChainStep(t) \/ Return(t)

\* The web server's threads take requests whenever they are free.
Next ==
    /\ UNCHANGED <<buildVars, bootVars, httpVars, metricVars, convVars>>
    /\ \E t \in Threads :
        \/ nreq < MaxRequests /\ \E m \in Msgs : get_response(t, m)
        \/ nreq < MaxRequests /\ \E s \in Sessions, m \in Msgs : invoke(t, s, m)
        \/ Step(t)

Spec == Init /\ [][Next]_vars

\* Requests issued and completed strictly one at a time: a request starts only
\* when no other is under way.
NextSeq ==
    /\ UNCHANGED <<buildVars, bootVars, httpVars, metricVars, convVars>>
    /\ \E t \in Threads :
        \/ AllIdle /\ nreq < MaxSeqRequests /\ \E m \in Msgs : get_response(t, m)
        \/ AllIdle /\ nreq < MaxSeqRequests
              /\ \E s \in Sessions, m \in Msgs : invoke(t, s, m)
        \/ Step(t)

SpecSeq == Init /\ [][NextSeq]_vars

\* ------------------------------------------------------------- POST /get
\* A faulty success response, which wraps the answer.
OkResponseWrapped(a) == [status |-> 200, body |-> <<"answer", a>>]

\* get_response returns the answer text: Flask sends it with status 200.
OkResponse(a) == [status |-> 200, body |-> a]

\* A faulty failure response, which sends the error as the reply text.
ErrorAsReply(e) == [status |-> 200, body |-> e]

\* get_response does not catch: Flask turns the exception into a 500 response.
ErrorResponse(e) == [status |-> 500, body |-> "Internal Server Error"]

\* request.form["msg"] on a form without msg: Flask's BadRequestKeyError, a 400.
BadRequest == [status |-> 400, body |-> "Bad Request"]

\* POST /get arrives at a free thread. With a msg field the handler calls the
\* chain (app.py lines 57-64); without one, line 57 raises before the chain is
\* reached and the request is answered with 400.
PostGet(t, f) ==
    /\ pc[t] = "idle"
    /\ IF "msg" \in DOMAIN f
       THEN /\ get_response(t, f.msg)
            /\ form' = [form EXCEPT ![t] = f]
            /\ response' = [response EXCEPT ![t] = NoResponse]
            /\ nposts' = nposts + 1
       ELSE /\ form' = [form EXCEPT ![t] = f]
            /\ response' = [response EXCEPT ![t] = BadRequest]
            /\ UNCHANGED <<chainVars, nposts>>

\* The handler is over: the answer is sent, or the exception becomes the response.
Respond(t) ==
    /\ Return(t)
    /\ response' = [response EXCEPT ![t] =
                       IF pc[t] = "done" THEN OkResponse(answer[t])
                                         ELSE ErrorResponse(error[t])]
    /\ form' = [form EXCEPT ![t] = NoForm]
    /\ UNCHANGED nposts

\* The deployed application: every chain invocation is a POST /get.
NextGet ==
    /\ UNCHANGED <<buildVars, bootVars, metricVars, convVars>>
    /\ \E t \in Threads :
        \/ nreq < MaxRequests /\ \E f \in Forms : PostGet(t, f)
        \/ ChainStep(t) /\ UNCHANGED httpVars
        \/ Respond(t)

SpecGet == Init /\ [][NextGet]_vars

\* ------------------------------------------------------ GET / and /metrics
\* generate_latest reads the one Counter of the module, whichever application asks.
CounterValue(count, hits) == count

\* create_app is called once more in the same process (as each test of the
\* suite does): a new Flask object, the same module and the same REQUEST_COUNT.
create_app(a) ==
    /\ a \notin apps
    /\ apps' = apps \cup {a}
    /\ UNCHANGED <<REQUEST_COUNT, index_hits, last_metrics, http_requests>>

\* GET / on application a (index, app.py lines 33-43).
index(a) ==
    /\ a \in apps
    /\ index_hits[a] < MaxHits
    /\ http_requests' = http_requests + 1
    /\ REQUEST_COUNT' = REQUEST_COUNT + 1
    /\ index_hits' = [index_hits EXCEPT ![a] = @ + 1]
    /\ UNCHANGED <<apps, last_metrics>>

\* GET /metrics on application a (metrics, app.py lines 68-76).
metrics(a) ==
    /\ a \in apps
    /\ http_requests < MaxHttpRequests
    /\ http_requests' = http_requests + 1
    /\ last_metrics' = [last_metrics EXCEPT ![a] =
           [reported |-> CounterValue(REQUEST_COUNT, index_hits[a]),
            requests |-> index_hits[a]]]
    /\ UNCHANGED <<apps, REQUEST_COUNT, index_hits>>

NextMetrics ==
    /\ UNCHANGED <<chainVars, buildVars, bootVars, httpVars, convVars>>
    /\ \E a \in Apps :
        \/ create_app(a)
        \/ index(a)
        \/ metrics(a)

SpecMetrics == Init /\ [][NextMetrics]_vars

\* ------------------------------------------------- DataIngestor and start-up
\* A faulty check, which looks at the endpoint only.
MissingVarsEndpointOnly(cfg) ==
    {v \in {"ASTRA_DB_API_ENDPOINT"} : cfg[v] = NoneValue}

\* _validate_config, line 106: the required settings whose value is None.
MissingVars(cfg) == {v \in RequiredVars : cfg[v] = NoneValue}

\* create_app (app.py line 27) or main (main.py line 44) calls DataIngestor().
D_New ==
    /\ startup = "begin"
    /\ ingestor.pc = "absent"
    /\ ingestor' = [ingestor EXCEPT !.pc = "validate"]
    /\ startup' = "running"
    /\ UNCHANGED <<chainVars, buildVars, httpVars, metricVars, convVars,
                   program, config, csv, add_documents_calls, store_docs>>

\* __init__, line 66: _validate_config raises ValueError when a setting is missing;
\* the except clause of __init__ logs and re-raises it.
D_Validate ==
    /\ ingestor.pc = "validate"
    /\ ingestor' = IF MissingVars(config) # {}
                   THEN [ingestor EXCEPT !.pc = "init_failed", !.error = "ValueError"]
                   ELSE [ingestor EXCEPT !.pc = "embedding"]
    /\ UNCHANGED <<chainVars, buildVars, httpVars, metricVars, convVars,
                   program, startup, config, csv,
                   add_documents_calls, store_docs>>

\* __init__, line 70: the embedding client is created, or its constructor raises.
D_Embedding ==
    /\ ingestor.pc = "embedding"
    /\ ingestor' = [ingestor EXCEPT !.pc = "vstore", !.embedding = TRUE]
    /\ UNCHANGED <<chainVars, buildVars, httpVars, metricVars, convVars,
                   program, startup, config, csv,
                   add_documents_calls, store_docs>>

D_EmbeddingFail ==
    /\ ingestor.pc = "embedding"
    /\ ingestor' = [ingestor EXCEPT !.pc = "init_failed", !.error = "Exception"]
    /\ UNCHANGED <<chainVars, buildVars, httpVars, metricVars, convVars,
                   program, startup, config, csv,
                   add_documents_calls, store_docs>>

\* __init__, lines 75-81: the vector store is created, or the connection fails.
D_VStore ==
    /\ ingestor.pc = "vstore"
    /\ ingestor' = [ingestor EXCEPT !.pc = "ready", !.vstore = TRUE]
    /\ UNCHANGED <<chainVars, buildVars, httpVars, metricVars, convVars,
                   program, startup, config, csv,
                   add_documents_calls, store_docs>>

D_VStoreFail ==
    /\ ingestor.pc = "vstore"
    /\ ingestor' = [ingestor EXCEPT !.pc = "init_failed", !.error = "ConnectionError"]
    /\ UNCHANGED <<chainVars, buildVars, httpVars, metricVars, convVars,
                   program, startup, config, csv,
                   add_documents_calls, store_docs>>

\* A faulty branch, which takes the CSV path whatever load_existing is.
ReturnsExistingNever(load_existing) == FALSE

\* ingest, line 141: with load_existing the vector store is returned at once.
ReturnsExisting(load_existing) == load_existing

\* ingest(load_existing) is called on the constructed ingestor.
D_Ingest(load_existing) ==
    /\ ingestor.pc = "ready"
    /\ ingestor' = IF ReturnsExisting(load_existing)
                   THEN [ingestor EXCEPT !.pc = "returned", !.result = "vstore",
                                         !.load_existing = load_existing]
                   ELSE [ingestor EXCEPT !.pc = "check_csv",
                                         !.load_existing = load_existing]
    /\ UNCHANGED <<chainVars, buildVars, httpVars, metricVars, convVars,
                   program, startup, config, csv,
                   add_documents_calls, store_docs>>

\* A faulty handler, which hides the type of what was raised.
ReraiseWrapped(e) == "Exception"

\* ingest, lines 182-193: each except clause logs and ends with a bare raise,
\* so the caller gets the exception that was raised.
Reraise(e) == e

\* ingest, lines 147-151: the file must exist.
D_CheckCsv ==
    /\ ingestor.pc = "check_csv"
    /\ ingestor' = IF csv.exists
                   THEN [ingestor EXCEPT !.pc = "convert", !.csv_checked = TRUE]
                   ELSE [ingestor EXCEPT !.pc = "ingest_failed", !.csv_checked = TRUE,
                                         !.raised = "FileNotFoundError",
                                         !.error = Reraise("FileNotFoundError")]
    /\ UNCHANGED <<chainVars, buildVars, httpVars, metricVars, convVars,
                   program, startup, config, csv,
                   add_documents_calls, store_docs>>

\* ingest, line 155: the file is read and converted to documents.
D_Convert ==
    /\ ingestor.pc = "convert"
    /\ ingestor' = [ingestor EXCEPT !.pc = "check_docs", !.csv_read = TRUE,
                                    !.docs = csv.docs]
    /\ UNCHANGED <<chainVars, buildVars, httpVars, metricVars, convVars,
                   program, startup, config, csv,
                   add_documents_calls, store_docs>>

\* ingest, line 155: the converter raises (a column is missing, the file cannot
\* be parsed).
D_ConvertFail ==
    /\ ingestor.pc = "convert"
    /\ ingestor' = [ingestor EXCEPT !.pc = "ingest_failed", !.csv_read = TRUE,
                                    !.raised = "KeyError", !.error = Reraise("KeyError")]
    /\ UNCHANGED <<chainVars, buildVars, httpVars, metricVars, convVars,
                   program, startup, config, csv,
                   add_documents_calls, store_docs>>

\* ingest, lines 158-159: no documents is a ValueError.
D_CheckDocs ==
    /\ ingestor.pc = "check_docs"
    /\ ingestor' = IF ingestor.docs = 0
                   THEN [ingestor EXCEPT !.pc = "ingest_failed", !.raised = "ValueError",
                                         !.error = Reraise("ValueError")]
                   ELSE [ingestor EXCEPT !.pc = "batch", !.i = 0]
    /\ UNCHANGED <<chainVars, buildVars, httpVars, metricVars, convVars,
                   program, startup, config, csv,
                   add_documents_calls, store_docs>>

\* A faulty slice, which leaves out a last batch that is not full.
BatchLenDropsRemainder(i, total) == IF i + BatchSize <= total THEN BatchSize ELSE 0

\* docs[i:i + batch_size]: the length of the batch that starts at i.
BatchLen(i, total) == IF i + BatchSize <= total THEN BatchSize ELSE total - i

\* ingest, lines 170-176: the next batch is added to the vector store.
D_AddBatch ==
    /\ ingestor.pc = "batch"
    /\ ingestor.i < ingestor.docs
    /\ add_documents_calls' =
           Append(add_documents_calls, <<ingestor.i, BatchLen(ingestor.i, ingestor.docs)>>)
    /\ store_docs' = store_docs + BatchLen(ingestor.i, ingestor.docs)
    /\ ingestor' = [ingestor EXCEPT !.i = @ + BatchSize]
    /\ UNCHANGED <<chainVars, buildVars, httpVars, metricVars, convVars,
                   program, startup, config, csv>>

\* A faulty failure path, which empties the store when a batch fails.
D_AddBatchFailRollback(e) ==
    /\ ingestor.pc = "batch"
    /\ ingestor.i < ingestor.docs
    /\ add_documents_calls' =
           Append(add_documents_calls, <<ingestor.i, BatchLen(ingestor.i, ingestor.docs)>>)
    /\ store_docs' = 0
    /\ ingestor' = [ingestor EXCEPT !.pc = "ingest_failed", !.raised = e,
                                    !.error = Reraise(e)]
    /\ UNCHANGED <<chainVars, buildVars, httpVars, metricVars, convVars,
                   program, startup, config, csv>>

\* add_documents raises e on the batch that starts at i: the loop ends there,
\* the except clause of ingest logs and re-raises, and the batches already
\* added stay in the store.
D_AddBatchFail(e) ==
    /\ ingestor.pc = "batch"
    /\ ingestor.i < ingestor.docs
    /\ add_documents_calls' =
           Append(add_documents_calls, <<ingestor.i, BatchLen(ingestor.i, ingestor.docs)>>)
    /\ ingestor' = [ingestor EXCEPT !.pc = "ingest_failed", !.raised = e,
                                    !.error = Reraise(e)]
    /\ UNCHANGED <<chainVars, buildVars, httpVars, metricVars, convVars,
                   program, startup, config, csv,
                   store_docs>>

\* ingest, line 180: all batches are in, the vector store is returned.
D_IngestDone ==
    /\ ingestor.pc = "batch"
    /\ ingestor.i >= ingestor.docs
    /\ ingestor' = [ingestor EXCEPT !.pc = "returned", !.result = "vstore"]
    /\ UNCHANGED <<chainVars, buildVars, httpVars, metricVars, convVars,
                   program, startup, config, csv,
                   add_documents_calls, store_docs>>

\* create_app, line 27: ingest(load_existing=True).
AppIngest == program = "app" /\ startup = "running" /\ D_Ingest(TRUE)

\* main, line 49: ingest(load_existing=False).
MainIngest == program = "main" /\ startup = "running" /\ D_Ingest(FALSE)

\* create_app, line 31: build_chain creates the retriever, once; create_app
\* returns the application, which starts to serve.
BuildChain ==
    /\ program = "app"
    /\ startup = "running"
    /\ ingestor.pc = "returned"
    /\ as_retriever_calls' = Append(as_retriever_calls, AsRetrieverArgs)
    /\ retriever' = AsRetrieverArgs
    /\ startup' = "serving"
    /\ apps' = apps \cup {"app1"}
    /\ UNCHANGED <<chainVars, program, config, csv, ingestor, add_documents_calls, store_docs,
                   httpVars, convVars, REQUEST_COUNT, index_hits, last_metrics,
                   http_requests>>

\* main returns after a successful ingest.
MainDone ==
    /\ program = "main"
    /\ startup = "running"
    /\ ingestor.pc = "returned"
    /\ startup' = "finished"
    /\ UNCHANGED <<chainVars, buildVars, httpVars, metricVars, convVars,
                   program, config, csv, ingestor,
                   add_documents_calls, store_docs>>

\* The exception of the constructor or of ingest leaves the entry point: neither
\* create_app nor main handles it (main prints and re-raises).
Crash ==
    /\ startup = "running"
    /\ ingestor.pc \in {"init_failed", "ingest_failed"}
    /\ startup' = "crashed"
    /\ UNCHANGED <<chainVars, buildVars, httpVars, metricVars, convVars,
                   program, config, csv, ingestor,
                   add_documents_calls, store_docs>>

NextBoot ==
    \/ D_New
    \/ D_Validate
    \/ D_Embedding
    \/ D_EmbeddingFail
    \/ D_VStore
    \/ D_VStoreFail
    \/ AppIngest
    \/ MainIngest
    \/ D_CheckCsv
    \/ D_Convert
    \/ D_ConvertFail
    \/ D_CheckDocs
    \/ D_AddBatch
    \/ \E e \in StoreErrors : D_AddBatchFail(e)
    \/ D_IngestDone
    \/ BuildChain
    \/ MainDone
    \/ Crash

SpecBoot == InitBoot /\ [][NextBoot]_vars

\* ------------------------------------------------------------ DataConverter
\* A data frame cell: a string, or NaN.
NaN == [isna |-> TRUE, text |-> <<>>]
Str(text) == [isna |-> FALSE, text |-> text]

\* pandas.read_csv reads an empty field as NaN and any other field as it is.
ReadCell(text) == IF text = <<>> THEN NaN ELSE Str(text)

\* str.strip: leading and trailing whitespace is removed.
RECURSIVE lstrip(_)
lstrip(text) ==
    IF text = <<>> \/ Head(text) \notin Whitespace THEN text ELSE lstrip(Tail(text))

RECURSIVE rstrip(_)
rstrip(text) ==
    IF text = <<>> \/ text[Len(text)] \notin Whitespace
    THEN text
    ELSE rstrip(SubSeq(text, 1, Len(text) - 1))

strip(text) == rstrip(lstrip(text))

\* A faulty filter, which measures the review with its surrounding whitespace.
LongEnoughUnstripped(review) == Len(review) > MinReviewLength

\* convert, line 78: the filter of very short reviews.
LongEnough(review) == Len(strip(review)) > MinReviewLength

\* A faulty document, which takes the review for the name and the title for the content.
DocumentSwapped(row) ==
    [page_content |-> strip(row.product_title.text),
     metadata |-> [product_name |-> strip(row.review.text),
                   source |-> "flipkart_reviews"]]

\* convert, lines 70-76: the Document made of a row of the data frame.
Document(row) ==
    [page_content |-> strip(row.review.text),
     metadata |-> [product_name |-> strip(row.product_title.text),
                   source |-> "flipkart_reviews"]]

\* convert, line 60: the file is read, the two columns are selected.
ReadCsv ==
    /\ conv_pc = "read_csv"
    /\ df' = [i \in 1..Len(csv_rows) |->
                 [product_title |-> ReadCell(csv_rows[i].product_title),
                  review |-> ReadCell(csv_rows[i].review)]]
    /\ conv_pc' = "dropna"
    /\ UNCHANGED <<csv_rows, documents>>

\* convert, line 63: rows with a NaN review or title are dropped.
DropNa ==
    /\ conv_pc = "dropna"
    /\ LET notna(row) == ~row.review.isna /\ ~row.product_title.isna
       IN  df' = SelectSeq(df, notna)
    /\ conv_pc' = "blank"
    /\ UNCHANGED <<csv_rows, documents>>

\* convert, line 64: rows with a blank review are dropped.
DropBlank ==
    /\ conv_pc = "blank"
    /\ LET notblank(row) == strip(row.review.text) # <<>>
       IN  df' = SelectSeq(df, notblank)
    /\ conv_pc' = "docs"
    /\ UNCHANGED <<csv_rows, documents>>

\* convert, lines 69-81: a Document for each row whose review is long enough.
MakeDocs ==
    /\ conv_pc = "docs"
    /\ LET long(row) == LongEnough(row.review.text)
           kept == SelectSeq(df, long)
       IN  documents' = [i \in 1..Len(kept) |-> Document(kept[i])]
    /\ conv_pc' = "returned"
    /\ UNCHANGED <<csv_rows, df>>

\* DataConverter(file_path).convert() is about to run on some CSV file.
InitConvert ==
    /\ InitChain
    /\ retriever = NoRetriever
    /\ as_retriever_calls = <<>>
    /\ program = "main"
    /\ startup = "running"
    /\ config = [v \in RequiredVars |-> "value"]
    /\ csv = [exists |-> TRUE, docs |-> 0]
    /\ ingestor = [NoIngestor EXCEPT !.pc = "convert", !.embedding = TRUE, !.vstore = TRUE,
                                     !.csv_checked = TRUE]
    /\ add_documents_calls = <<>>
    /\ store_docs = 0
    /\ apps = {}
    /\ form = [t \in Threads |-> NoForm]
    /\ response = [t \in Threads |-> NoResponse]
    /\ nposts = 0
    /\ REQUEST_COUNT = 0
    /\ index_hits = [a \in Apps |-> 0]
    /\ last_metrics = [a \in Apps |-> NotScraped]
    /\ http_requests = 0
    /\ csv_rows \in CsvFiles
    /\ df = <<>>
    /\ documents = <<>>
    /\ conv_pc = "read_csv"

NextConvert ==
    /\ UNCHANGED <<chainVars, buildVars, bootVars, httpVars, metricVars>>
    /\ \/ ReadCsv
       \/ DropNa
       \/ DropBlank
       \/ MakeDocs

SpecConvert == InitConvert /\ [][NextConvert]_vars

\* ------------------------------------------------------------------ claims
\* A request is adding its turn: between the end of generation and the second add_message.
Appending(t) == pc[t] \in {"exit_human", "exit_ai"}

\* C1: with requests issued and completed one at a time, whenever no request is
\* in the middle of adding its turn, each session's messages are exactly the
\* turns of the successful requests on that session, in call order.
C1_HistoryOrder ==
    (\A t \in Threads : ~Appending(t))
        => \A s \in Sessions : SessionMessages(s) = TurnMessages(log, s)

\* Two successful requests with different inputs have completed on one session.
C1_Witness ==
    /\ AllIdle
    /\ Len(log) >= 2
    /\ log[1].session = log[2].session
    /\ log[1].input # log[2].input
    /\ Len(SessionMessages(log[1].session)) >= 4

\* C2: when a request has failed (reformulation, retrieval or generation raised),
\* the session's messages are what the request loaded before the pipeline ran:
\* nothing was added, not even the human message.
C2_NoTraceOnFailure ==
    \A t \in Threads :
        error[t] # "" => SessionMessages(session_id[t]) = chat_history[t]

\* A request has failed on a session that already held a turn.
C2_Witness ==
    \E t \in Threads :
        /\ pc[t] = "failed"
        /\ thrown[t] = "generate_error"
        /\ Len(SessionMessages(session_id[t])) = 2

\* C3: every change to the messages of a session is made by a step of a request
\* on that session, two session keys never hold the same history object, and a
\* request never holds the history object of another session.
C3_SessionIsolation ==
    [][/\ \A s \in Sessions :
             SessionMessages(s)' # SessionMessages(s)
                 => \E t \in Threads : session_id[t] = s /\ pc'[t] # pc[t]
       /\ \A s1, s2 \in Sessions :
             (s1 # s2 /\ history_store'[s1] # NoObj)
                 => history_store'[s1] # history_store'[s2]
       /\ \A t \in Threads : \A s \in Sessions :
             (message_history'[t] # NoObj /\ s # session_id'[t])
                 => message_history'[t] # history_store'[s]]_vars

\* Both sessions hold a turn.
C3_Witness ==
    /\ Len(SessionMessages("user-session")) = 2
    /\ Len(SessionMessages("session-2")) = 2

\* C4: once a session key is in the store, the object stored under it never
\* changes: every later _get_history for the key returns that very object and
\* the store gains no entry.
C4_GetHistoryIdempotent ==
    [][\A s \in Sessions :
          history_store[s] # NoObj => history_store'[s] = history_store[s]]_vars

\* The successful requests made on a session.
NumSuccessful(s) == Len(TurnMessages(log, s)) \div 2

\* How often a session's messages hold the turn (input h, answer a).
CountTurn(msgs, h, a) ==
    Cardinality({i \in 1..(Len(msgs) \div 2) :
                    msgs[2 * i - 1] = HumanMessage(h) /\ msgs[2 * i] = AIMessage(a)})

\* C5: when all requests have returned, a session holds exactly one turn per
\* successful request made on it, each turn the request's input paired with the
\* answer generated for that request.
C5_OneTurnPerSuccess ==
    AllIdle => \A s \in Sessions :
        /\ Len(SessionMessages(s)) = 2 * NumSuccessful(s)
        /\ \A h \in Msgs, a \in Answers :
               CountTurn(SessionMessages(s), h, a) = CountTurn(TurnMessages(log, s), h, a)

\* C6: the history handed to a request's reformulation step holds the turns of
\* all earlier successful requests on the session, the first request's included.
C6_ReformulationSeesHistory ==
    \A t \in Threads :
        pc[t] = "reformulate" => chat_history[t] = TurnMessages(log, session_id[t])

\* A second request on a session is at its reformulation step.
C6_Witness ==
    \E t \in Threads :
        /\ pc[t] = "reformulate"
        /\ Len(TurnMessages(log, session_id[t])) = 2
        /\ chat_history[t] # <<>>

\* C7: a session's messages only grow at the end, and a key stays in the store.
C7_AppendOnly ==
    [][\A s \in Sessions :
          /\ IsPrefix(SessionMessages(s), SessionMessages(s)')
          /\ history_store[s] # NoObj => history_store'[s] # NoObj]_vars

\* C8: one history object is created per session key, and every request holds
\* the object the store holds for its session.
C8_OneObjectPerKey ==
    /\ Len(heap) <= Cardinality({s \in Sessions : history_store[s] # NoObj})
    /\ \A t \in Threads :
           message_history[t] # NoObj
               => message_history[t] = history_store[session_id[t]]

\* C9: when all requests have returned, a session's messages are the turns of
\* the requests that completed generation, each once, in the order in which
\* generation completed.
C9_TurnsInGenerationOrder ==
    AllIdle => \A s \in Sessions : SessionMessages(s) = TurnMessages(log, s)

\* C10: no collaborator is called more than once in a request; a failed request
\* ends with the exception its collaborator raised, and no stage after the
\* failing one has run.
C10_ErrorsPropagate ==
    \A t \in Threads :
        /\ ncalls[t].reformulate <= 1
        /\ ncalls[t].retrieve <= 1
        /\ ncalls[t].generate <= 1
        /\ pc[t] = "failed" =>
               /\ thrown[t] # ""
               /\ error[t] = thrown[t]
               /\ answer[t] = ""
               /\ thrown[t] = "reformulate_error"
                      => ncalls[t].retrieve = 0 /\ ncalls[t].generate = 0
               /\ thrown[t] = "retrieve_error" => ncalls[t].generate = 0
        /\ error[t] # "" => pc[t] = "failed"

\* A request has failed in retrieval after its reformulation call.
C10_Witness ==
    \E t \in Threads :
        /\ pc[t] = "failed"
        /\ thrown[t] = "retrieve_error"
        /\ ncalls[t].reformulate = 1

\* The request of thread t has passed the reformulation stage.
PastReformulation(t) ==
    pc[t] \in {"retrieve", "generate", "no_answer", "exit_human", "exit_ai", "done", "failed"}

\* C11: a request that found its session's history empty hands its raw input
\* to retrieval as the query, without a call to the model for a rewrite; it
\* cannot fail in reformulation.
C11_EmptyHistoryRawInput ==
    \A t \in Threads :
        (PastReformulation(t) /\ chat_history[t] = <<>>)
            => /\ query[t] = user_input[t]
               /\ ncalls[t].reformulate = 0
               /\ thrown[t] # "reformulate_error"

\* A request with an empty history has retrieved with its input as the query.
C11_Witness ==
    \E t \in Threads :
        /\ pc[t] = "generate"
        /\ chat_history[t] = <<>>
        /\ query[t] = user_input[t]
        /\ user_input[t] \in Msgs
        /\ ncalls[t].retrieve = 1

C14_NoAnswerIsAnError ==
    [][\A t \in Threads :
          (pc[t] = "no_answer" /\ pc'[t] # "no_answer")
              => /\ pc'[t] = "failed"
                 /\ error'[t] = "KeyError"
                 /\ answer'[t] = ""
                 /\ heap' = heap]_vars

\* A request has failed for a result without an answer field.
C14_Witness ==
    \E t \in Threads :
        /\ pc[t] = "failed"
        /\ thrown[t] = "KeyError"
        /\ ncalls[t].generate = 1
        /\ answer[t] = ""

\* Every request runs under the key "user-session", and no other key ever
\* gets a history.
FixedSessionKey ==
    /\ \A t \in Threads : pc[t] # "idle" => session_id[t] = "user-session"
    /\ \A s \in Sessions \ {"user-session"} : history_store[s] = NoObj
    /\ \A i \in DOMAIN log : log[i].session = "user-session"

\* C15: every POST /get invokes the chain with session_id "user-session", and
\* all requests read and append to one single history: the one stored under
\* that key.
C15_OneSharedHistory ==
    /\ FixedSessionKey
    /\ \A t \in Threads :
           message_history[t] # NoObj
               => message_history[t] = history_store["user-session"]

\* The form of thread t's request carries a msg field.
HasMsg(t) == form[t] # NoForm /\ "msg" \in DOMAIN form[t]

\* C16: a POST /get with a msg field invokes the chain once, with that msg as
\* the input, and when the chain has succeeded the response is 200 with
\* exactly the chain's answer as its body.
C16_AnswerIsTheBody ==
    /\ [](/\ nreq = nposts
          /\ \A t \in Threads :
                 HasMsg(t) => pc[t] # "idle" /\ user_input[t] = form[t].msg)
    /\ [][\A t \in Threads :
             (pc[t] = "done" /\ pc'[t] = "idle")
                 => /\ answer[t] \in Answers
                    /\ response'[t] = [status |-> 200, body |-> answer[t]]]_vars

\* A request has been answered with the chain's answer for it.
C16_Witness ==
    \E t \in Threads :
        /\ pc[t] = "idle"
        /\ response[t].status = 200
        /\ response[t].body \in Answers
        /\ \E i \in DOMAIN log : log[i].answer = response[t].body

C18_MetricsCountsOwnRequests ==
    \A a \in apps : last_metrics[a].reported = last_metrics[a].requests

\* C19: with one of the three Astra settings absent, the constructor of
\* DataIngestor fails with ValueError and creates neither the embedding client
\* nor the vector store; the application never serves with a setting absent.
C19_MissingCredentialIsFatal ==
    /\ (\E v \in RequiredVars : config[v] = NoneValue)
           => /\ ingestor.pc \in {"absent", "validate", "init_failed"}
              /\ ~ingestor.embedding
              /\ ~ingestor.vstore
              /\ ingestor.pc = "init_failed" => ingestor.error = "ValueError"
              /\ apps = {}
    /\ startup = "serving" => \A v \in RequiredVars : config[v] # NoneValue

\* Start-up has ended in the constructor's ValueError, the token being the
\* one setting that is absent.
C19_Witness ==
    /\ startup = "crashed"
    /\ ingestor.error = "ValueError"
    /\ config["ASTRA_DB_APPLICATION_TOKEN"] = NoneValue
    /\ config["ASTRA_DB_API_ENDPOINT"] = "value"
    /\ config["ASTRA_DB_KEYSPACE"] = "value"

\* C20: once ingest(load_existing=True) has been called, it returns the
\* vector store; add_documents is not called, the store has received nothing,
\* and the CSV file is neither checked nor read.
C20_LoadExistingTouchesNothing ==
    (ingestor.load_existing /\ ingestor.pc \notin {"absent", "validate", "embedding",
                                                    "vstore", "init_failed", "ready"})
        => /\ ingestor.pc = "returned"
           /\ ingestor.result = "vstore"
           /\ ingestor.vstore
           /\ add_documents_calls = <<>>
           /\ store_docs = 0
           /\ ~ingestor.csv_checked
           /\ ~ingestor.csv_read

\* ingest(load_existing=True) has returned although the CSV file does not exist.
C20_Witness ==
    /\ ingestor.load_existing
    /\ ingestor.pc = "returned"
    /\ ingestor.result = "vstore"
    /\ ~csv.exists

\* ingest(load_existing=False) has returned.
FreshIngestReturned == ingestor.pc = "returned" /\ ~ingestor.load_existing

\* C21: a successful ingest(load_existing=False) over n documents has called
\* add_documents ceil(n/50) times, with consecutive slices of the converter's
\* list that start at 0, end at n and hold at most 50 documents each (one call
\* with the whole list when n <= 50); the store has received n documents and
\* the vector store is returned.
C21_BatchesCoverAllDocuments ==
    FreshIngestReturned =>
        LET n == ingestor.docs
            calls == add_documents_calls
        IN  /\ n > 0
            /\ Len(calls) = (n + 49) \div 50
            /\ calls[1][1] = 0
            /\ \A j \in 1..Len(calls) :
                   /\ calls[j][2] >= 1
                   /\ calls[j][2] <= 50
                   /\ calls[j][1] + calls[j][2] =
                          (IF j < Len(calls) THEN calls[j + 1][1] ELSE n)
            /\ n <= 50 => calls = << <<0, n>> >>
            /\ store_docs = n
            /\ ingestor.result = "vstore"
            /\ ingestor.vstore

\* An ingest of 101 documents has returned after three batches.
C21_Witness ==
    /\ FreshIngestReturned
    /\ ingestor.docs = 101
    /\ add_documents_calls = << <<0, 50>>, <<50, 50>>, <<100, 1>> >>

\* ingest(load_existing=False) has gone past the check that the file exists.
PastCsvCheck ==
    /\ ~ingestor.load_existing
    /\ ingestor.pc \in {"convert", "check_docs", "batch", "returned", "ingest_failed"}

\* ingest(load_existing=False) has gone past the check of the converted list.
PastDocsCheck ==
    /\ ~ingestor.load_existing
    /\ ingestor.csv_read
    /\ ingestor.raised # "KeyError"
    /\ ingestor.pc \in {"batch", "returned", "ingest_failed"}

\* C22: with the CSV file absent ingest(load_existing=False) ends in
\* FileNotFoundError, with no converted document it ends in ValueError; in both
\* cases add_documents has not been called, nothing is in the store, and the
\* exception leaves ingest, and the program, with that type.
C22_FailsBeforeAnyWrite ==
    /\ (PastCsvCheck /\ ~csv.exists)
           => /\ ingestor.pc = "ingest_failed"
              /\ ingestor.error = "FileNotFoundError"
              /\ ~ingestor.csv_read
              /\ add_documents_calls = <<>>
              /\ store_docs = 0
    /\ (PastDocsCheck /\ csv.docs = 0)
           => /\ ingestor.pc = "ingest_failed"
              /\ ingestor.error = "ValueError"
              /\ add_documents_calls = <<>>
              /\ store_docs = 0

\* main has ended in the ValueError of an ingest that converted no document.
C22_Witness ==
    /\ startup = "crashed"
    /\ program = "main"
    /\ csv.exists
    /\ csv.docs = 0
    /\ ingestor.error = "ValueError"
    /\ ingestor.csv_read

\* ingest has failed in a call of add_documents.
AddDocumentsFailed == ingestor.pc = "ingest_failed" /\ add_documents_calls # <<>>

\* C30: when add_documents raises on the batch that starts at i, ingest ends
\* with that very exception, the failed call is the last one made, the i
\* documents of the batches before it are in the store, and nothing is added
\* or taken back afterwards.
C30_NoRollbackOnFailedBatch ==
    /\ [](AddDocumentsFailed =>
             LET calls == add_documents_calls
             IN  /\ ingestor.raised \in StoreErrors
                 /\ ingestor.error = ingestor.raised
                 /\ calls[Len(calls)][1] = ingestor.i
                 /\ \A j \in 1..Len(calls) : calls[j][1] = (j - 1) * 50
                 /\ store_docs = ingestor.i
                 /\ store_docs < ingestor.docs)
    /\ [][ingestor.pc = "ingest_failed"
             => /\ add_documents_calls' = add_documents_calls
                /\ store_docs' = store_docs
                /\ ingestor' = ingestor]_vars

\* main has ended in the error of the third batch: 100 of the 101 documents
\* are in the store.
C30_Witness ==
    /\ AddDocumentsFailed
    /\ startup = "crashed"
    /\ ingestor.docs = 101
    /\ Len(add_documents_calls) = 3
    /\ store_docs = 100
    /\ ingestor.error = "ConnectionError"

\* The rows of the CSV file whose review, without its surrounding whitespace,
\* is longer than ten characters.
LongReviewRows == {i \in 1..Len(csv_rows) : Len(strip(csv_rows[i].review)) > 10}

\* C23: every document convert returns has a content of more than ten
\* characters and is made of a row whose stripped review is that long; there
\* are no more documents than such rows, so a row with a null, blank or
\* shorter review gives none.
C23_ShortReviewsExcluded ==
    conv_pc = "returned" =>
        /\ \A j \in 1..Len(documents) :
               /\ Len(documents[j].page_content) > 10
               /\ \E i \in LongReviewRows :
                      documents[j].page_content = strip(csv_rows[i].review)
        /\ Len(documents) <= Cardinality(LongReviewRows)

\* A file of two rows, one of them with a review that has eleven characters
\* only with its spaces, has given one document.
C23_Witness ==
    /\ conv_pc = "returned"
    /\ Len(csv_rows) = 2
    /\ csv_rows[1].review = Rep(" ", 2) \o Rep("r", 9)
    /\ csv_rows[1].product_title # <<>>
    /\ Len(documents) = 1

\* The metadata of document d holds nothing of the CSV row but the title.
OnlyTitleCopied(d, row) ==
    /\ DOMAIN d.metadata \cap {"product_title", "review", "rating"} = {}
    /\ d.metadata.product_name # row.rating

\* The documents are the rows, one for one and in order, review and title unchanged.
OneDocumentPerRow ==
    /\ Len(documents) = Len(csv_rows)
    /\ \A i \in 1..Len(csv_rows) :
           /\ documents[i].page_content = csv_rows[i].review
           /\ documents[i].metadata.product_name = csv_rows[i].product_title
           /\ OnlyTitleCopied(documents[i], csv_rows[i])

Unpadded(text) ==
    text # <<>> /\ Head(text) \notin Whitespace /\ text[Len(text)] \notin Whitespace

C25_WhitespacePreserved ==
    conv_pc = "returned" =>
        \A j \in 1..Len(documents) :
            \E i \in 1..Len(csv_rows) :
                /\ documents[j].page_content = csv_rows[i].review
                /\ documents[j].metadata.product_name = csv_rows[i].product_title

\* The positions a request may move to from position p: load the history,
\* reformulate, retrieve, generate on the retrieved context, append, and from
\* the three stages that call a collaborator also the failure of the request.
NextPositions(p) ==
    CASE p = "idle"        -> {"get_history"}
      [] p = "get_history" -> {"create", "lookup"}
      [] p = "create"      -> {"lookup"}
      [] p = "lookup"      -> {"enter"}
      [] p = "enter"       -> {"reformulate"}
      [] p = "reformulate" -> {"retrieve", "failed"}
      [] p = "retrieve"    -> {"generate", "failed"}
      [] p = "generate"    -> {"exit_human", "no_answer", "failed"}
      [] p = "no_answer"   -> {"failed"}
      [] p = "exit_human"  -> {"exit_ai"}
      [] p = "exit_ai"     -> {"done"}
      [] p = "done"        -> {"idle"}
      [] p = "failed"      -> {"idle"}

\* C26: a request moves through its stages in the one order load history,
\* reformulate, retrieve, generate, append; no stage runs twice; retrieval
\* starts with the query of the finished reformulation, generation with the
\* result of the finished retrieval, the append with the generated answer.
C26_StagesInOrder ==
    /\ [][\A t \in Threads : pc'[t] # pc[t] => pc'[t] \in NextPositions(pc[t])]_vars
    /\ [](\A t \in Threads :
             /\ ncalls[t].reformulate <= 1
             /\ ncalls[t].retrieve <= 1
             /\ ncalls[t].generate <= 1
             /\ pc[t] = "reformulate" => message_history[t] # NoObj /\ ncalls[t] = NoCalls
             /\ pc[t] = "retrieve"
                    => /\ query[t] # ""
                       /\ ncalls[t].reformulate = (IF chat_history[t] = <<>> THEN 0 ELSE 1)
                       /\ ncalls[t].retrieve = 0
             /\ pc[t] = "generate"
                    => /\ retrieved[t] # NoRetrieval
                       /\ ncalls[t].retrieve = 1
                       /\ ncalls[t].generate = 0
             /\ Appending(t)
                    => /\ answer[t] \in Answers
                       /\ ncalls[t].retrieve = 1
                       /\ ncalls[t].generate = 1)

\* A request with history has run every stage once and is done.
C26_Witness ==
    \E t \in Threads :
        /\ pc[t] = "done"
        /\ chat_history[t] # <<>>
        /\ ncalls[t] = [reformulate |-> 1, retrieve |-> 1, generate |-> 1]

\* C27: generation answers the request's own input, also when the query was
\* reformulated, and the human message appended to the history is that input.
C27_OriginalInputGeneratedAndRecorded ==
    /\ [][\A t \in Threads :
             /\ (pc[t] = "generate" /\ pc'[t] = "exit_human")
                    => log' = Append(log, [session |-> session_id[t],
                                           input |-> user_input[t],
                                           answer |-> answer'[t]])
             /\ (pc[t] = "exit_human" /\ pc'[t] = "exit_ai")
                    => heap'[message_history[t]] =
                           Append(heap[message_history[t]], HumanMessage(user_input[t]))]_vars
    /\ [](/\ \A i \in DOMAIN log : log[i].input \in Msgs
          /\ \A h \in DOMAIN heap : \A j \in DOMAIN heap[h] :
                 heap[h][j].type = "human" => heap[h][j].content \in Msgs)

\* A request whose query was reformulated has recorded its turn.
C27_Witness ==
    \E t \in Threads :
        /\ pc[t] = "done"
        /\ query[t] \in Queries
        /\ query[t] # user_input[t]
        /\ \E j \in DOMAIN heap[message_history[t]] :
               heap[message_history[t]][j] = HumanMessage(user_input[t])

\* C28: with one of the three Astra settings the empty string, the
\* constructor of DataIngestor does not get past _validate_config: it fails
\* with ValueError, and neither the embedding client nor the vector store is
\* created.
C28_EmptySettingIsMissing ==
    (\E v \in RequiredVars : config[v] = "")
        => /\ ingestor.pc \in {"absent", "validate", "init_failed"}
           /\ ingestor.pc = "init_failed" => ingestor.error = "ValueError"
           /\ ~ingestor.embedding
           /\ ~ingestor.vstore

\* C29: the counter http_requests_total equals the number of HTTP requests
\* the process has handled.
C29_CounterCountsAllRequests == REQUEST_COUNT = http_requests
====
